---- MODULE Spec2Model ----
(***************************************************************************)
(* Browsing Digest: the background service worker's Record Store           *)
(* (savePageData, getHistory, exportData, clearHistory over                *)
(* chrome.storage.local) and the content script's extractor.               *)
(*                                                                         *)
(* Instants are counted in hours since the epoch; an ISO instant string    *)
(* ("2026-02-06T15:00:00.000Z") is represented by the instant it denotes.  *)
(* A date-picker value ("2026-02-06") is represented by its day number     *)
(* (days since the epoch).  Text is a sequence of one-character strings.   *)
(***************************************************************************)
EXTENDS Integers, Sequences, FiniteSets, TLC

VARIABLES
    storage,    \* chrome.storage.local: a function from the keys set to values
    ops,        \* the onMessage handler invocations of the service worker
    tz,         \* the local timezone's offset from UTC, in hours
    now,        \* the system clock
    log,        \* history: the payloads of the appends that succeeded, in order
    page,       \* the document: the page the content script is injected
                \* into, or the popup
    cs,         \* the content script's position in that document
    outbox      \* PAGE_DATA messages sent and not yet received

storeVars == <<storage, ops, now, log>>
pageVars  == <<page, cs, outbox>>
vars      == <<storage, ops, tz, now, log, page, cs, outbox>>

----------------------------------------------------------------------------
(* Bounds of the model *)

\* handler invocations in one behaviour of the concurrent store
MaxOps == 2
\* handler invocations in one behaviour of the sequential store
MaxSeqOps == 2
\* handler invocations in one behaviour of the queried store
MaxQueryOps == 1
\* entries of an enumerated initial store
MaxLen == 2
\* distinct outcomes of Math.random() in generateId
MaxRnd == 2
\* clock ticks in one behaviour
MaxTicks == 1
\* handler invocations in one behaviour of the mixed, concurrent store
MaxMixOps == 2
\* runs of the content script in one document
MaxRuns == 2
\* handler invocations in one behaviour of the store near its capacity
MaxCapOps == 2
\* handler invocations in one behaviour of the store whose callbacks all run
MaxLiveOps == 2

----------------------------------------------------------------------------
(* Program constants and input sets *)

STORAGE_KEY == "browsing_history"

MAX_ENTRIES == 500

\* a falsy message.date: null from refreshData, "" from an emptied date picker
NoDate == -1

\* the days a date picker value is drawn from (2026-02-06, 2026-02-07)
Days == {20490, 20491}

\* the local UTC offsets considered (New York, UTC, Tokyo)
TimeZones == {-5, 0, 9}

\* the instants a capture's timestamp is drawn from: early and late
\* UTC hours of each day, so that every offset moves some of them across
\* local midnight
Stamps == {d * 24 + h : d \in Days, h \in {2, 22}}

\* the first instant of the system clock
Epoch0 == 20490 * 24

----------------------------------------------------------------------------
(* Date *)

\* new Date("YYYY-MM-DD"): a date-only ISO string is parsed as UTC midnight
NewDateFromDay(d) == d * 24

\* new Date(isoInstant): the instant itself
NewDateFromISO(t) == t

\* Date.prototype.toDateString(): the calendar day in local time
toDateString(t) == (t + tz) \div 24

----------------------------------------------------------------------------
(* Array helpers *)

\* Array.prototype.slice(-n)
SliceLast(s, n) == IF Len(s) <= n THEN s ELSE SubSeq(s, Len(s) - n + 1, Len(s))

----------------------------------------------------------------------------
(* chrome.storage.local *)

\* result[STORAGE_KEY] || []
StoredHistory(result) ==
    IF STORAGE_KEY \in DOMAIN result THEN result[STORAGE_KEY] ELSE <<>>

\* chrome.storage.local.set({ [STORAGE_KEY]: history })
StorageSet(area, history) ==
    [k \in DOMAIN area \cup {STORAGE_KEY} |->
        IF k = STORAGE_KEY THEN history ELSE area[k]]

----------------------------------------------------------------------------
(* The Record Store's computations *)

\* generateId(): Date.now() in base 36 followed by Math.random() in base 36
generateId(t, r) == <<t, r>>

\* { id: generateId(), savedAt: new Date().toISOString(), ...pageData }
NewEntry_PayloadWins(pageData, id, savedAt) ==
    [f \in DOMAIN pageData \cup {"id", "savedAt"} |->
        IF f \in DOMAIN pageData THEN pageData[f]
        ELSE IF f = "id" THEN id ELSE savedAt]

\* { ...pageData, id: generateId(), savedAt: new Date().toISOString() }
NewEntry(pageData, id, savedAt) ==
    [f \in DOMAIN pageData \cup {"id", "savedAt"} |->
        CASE f = "id"      -> id
          [] f = "savedAt" -> savedAt
          [] OTHER         -> pageData[f]]

\* no trim
TrimHistory_Never(history) == history

\* the trim keeping the oldest entries: history.slice(0, MAX_ENTRIES)
TrimHistory_KeepOldest(history) ==
    IF Len(history) > MAX_ENTRIES THEN SubSeq(history, 1, MAX_ENTRIES) ELSE history

\* if (history.length > MAX_ENTRIES) history = history.slice(-MAX_ENTRIES)
TrimHistory(history) ==
    IF Len(history) > MAX_ENTRIES THEN SliceLast(history, MAX_ENTRIES) ELSE history

\* savePageData's read-modify step: push the new entry, trim the old ones
PushAndTrim(history, pageData, id, savedAt) ==
    TrimHistory(Append(history, NewEntry(pageData, id, savedAt)))

\* new Date(date).toDateString(), for the date the message carries
FilterDateStr(date) == toDateString(NewDateFromDay(date))

\* new Date(entry.timestamp).toDateString() === filterDateStr
OnFilterDate(entry, date) ==
    toDateString(NewDateFromISO(entry.timestamp)) = FilterDateStr(date)

\* getHistory's filter: the entries of the date, or all when date is falsy
HistoryOf(history, date) ==
    IF date # NoDate
    THEN LET Keep(entry) == OnFilterDate(entry, date) IN SelectSeq(history, Keep)
    ELSE history

\* a filter that compares the date with the day of the ISO timestamp string
HistoryWithout_ISODate(history, date) ==
    LET Keep(entry) == entry.timestamp \div 24 # date IN SelectSeq(history, Keep)

\* clearHistory's filter: the entries not of the date
HistoryWithout(history, date) ==
    LET Keep(entry) == ~OnFilterDate(entry, date) IN SelectSeq(history, Keep)

\* the projection that passes the stored entry on as it is
ExportPage_Whole(entry) == entry

\* exportData's projection of one entry
ExportPage(entry) ==
    [url         |-> entry.url,
     title       |-> entry.title,
     content     |-> entry.content,
     timestamp   |-> entry.timestamp,
     domain      |-> entry.domain,
     readingTime |-> entry.readingTime]

\* exportData's document
ExportDocument(history, date, exportedAt) ==
    [exportedAt |-> exportedAt,
     date       |-> IF date # NoDate THEN date ELSE "all",
     totalPages |-> Len(history),
     pages      |-> [k \in 1..Len(history) |-> ExportPage(history[k])]]

----------------------------------------------------------------------------
(* The service worker's message handlers.  A handler runs to its next      *)
(* storage call; the storage callback runs when the storage area has done  *)
(* the read or the write, at which point its effect is visible.            *)

NoData == [url |-> 0]
NoResponse == [success |-> FALSE, error |-> "", data |-> <<>>]
Success(data) == [success |-> TRUE, error |-> "", data |-> data]
\* a catch handler that responds success
Failure_Swallowed == [success |-> TRUE, error |-> "", data |-> <<>>]
\* .catch((error) => sendResponse({ success: false, error: error.message }))
Failure == [success |-> FALSE, error |-> "lastError", data |-> <<>>]

\* fault records the storage call of the handler for which
\* chrome.runtime.lastError was set
IdleOp ==
    [type |-> "", pc |-> "idle", date |-> NoDate, data |-> NoData,
     history |-> <<>>, snap |-> <<>>, resp |-> NoResponse, fault |-> "none"]

\* the clock may have advanced when it is read
ClockReadings == {t \in now..(now + 1) : t <= Epoch0 + MaxTicks}

\* chrome.runtime.onMessage, message.type === 'PAGE_DATA': savePageData
\* calls chrome.storage.local.get
OnPageData(i, pageData) ==
    /\ ops[i].pc = "idle"
    /\ ops' = [ops EXCEPT ![i] =
                  [@ EXCEPT !.type = "PAGE_DATA", !.pc = "get", !.data = pageData]]

\* a PAGE_DATA message from some content script
RecvPageData(i, pageData) ==
    /\ OnPageData(i, pageData)
    /\ UNCHANGED <<storage, tz, now, log, pageVars>>

\* savePageData: the callback of chrome.storage.local.get
SaveGet(i) ==
    /\ ops[i].pc = "get"
    /\ ops[i].type = "PAGE_DATA"
    /\ \E err \in BOOLEAN, t \in ClockReadings, r \in 1..MaxRnd :
          IF err
          THEN /\ ops' = [ops EXCEPT ![i] = [@ EXCEPT !.pc = "done", !.resp = Failure,
                                      !.fault = "get"]]
               /\ now' = now
          ELSE /\ ops' = [ops EXCEPT ![i] =
                    [@ EXCEPT !.pc = "set",
                              !.history = PushAndTrim(StoredHistory(storage),
                                              ops[i].data, generateId(t, r), t)]]
               /\ now' = t
    /\ UNCHANGED <<storage, tz, log, pageVars>>

\* savePageData: the callback of chrome.storage.local.set
SaveSet(i) ==
    /\ ops[i].pc = "set"
    /\ ops[i].type = "PAGE_DATA"
    /\ \E err \in BOOLEAN :
          IF err
          THEN /\ ops' = [ops EXCEPT ![i] = [@ EXCEPT !.pc = "done", !.resp = Failure,
                                      !.fault = "set"]]
               /\ UNCHANGED <<storage, log>>
          ELSE /\ storage' = StorageSet(storage, ops[i].history)
               /\ log' = Append(log, ops[i].data)
               /\ ops' = [ops EXCEPT ![i] =
                    [@ EXCEPT !.pc = "done", !.resp = Success(<<>>)]]
    /\ UNCHANGED <<tz, now, pageVars>>

\* chrome.runtime.onMessage, message.type === 'GET_HISTORY': getHistory
\* calls chrome.storage.local.get
RecvGetHistory(i, date) ==
    /\ ops[i].pc = "idle"
    /\ ops' = [ops EXCEPT ![i] =
                  [@ EXCEPT !.type = "GET_HISTORY", !.pc = "get", !.date = date]]
    /\ UNCHANGED <<storage, tz, now, log, pageVars>>

\* a getHistory that stores the filtered array it returns
HistoryGet_WritesBack(i) ==
    /\ ops[i].pc = "get"
    /\ ops[i].type = "GET_HISTORY"
    /\ ops' = [ops EXCEPT ![i] =
                  [@ EXCEPT !.pc = "done",
                            !.snap = StoredHistory(storage),
                            !.history = HistoryOf(StoredHistory(storage), ops[i].date),
                            !.resp = Success(HistoryOf(StoredHistory(storage),
                                                       ops[i].date))]]
    /\ storage' = StorageSet(storage, HistoryOf(StoredHistory(storage), ops[i].date))
    /\ UNCHANGED <<tz, now, log, pageVars>>

\* getHistory: the callback of chrome.storage.local.get
HistoryGet(i) ==
    /\ ops[i].pc = "get"
    /\ ops[i].type = "GET_HISTORY"
    /\ \E err \in BOOLEAN :
          IF err
          THEN ops' = [ops EXCEPT ![i] = [@ EXCEPT !.pc = "done", !.resp = Failure,
                                      !.fault = "get"]]
          ELSE ops' = [ops EXCEPT ![i] =
                    [@ EXCEPT !.pc = "done",
                              !.snap = StoredHistory(storage),
                              !.history = HistoryOf(StoredHistory(storage), ops[i].date),
                              !.resp = Success(HistoryOf(StoredHistory(storage),
                                                         ops[i].date))]]
    /\ UNCHANGED <<storage, tz, now, log, pageVars>>

\* chrome.runtime.onMessage, message.type === 'EXPORT_DATA': exportData
\* awaits getHistory, which calls chrome.storage.local.get
RecvExportData(i, date) ==
    /\ ops[i].pc = "idle"
    /\ ops' = [ops EXCEPT ![i] =
                  [@ EXCEPT !.type = "EXPORT_DATA", !.pc = "get", !.date = date]]
    /\ UNCHANGED <<storage, tz, now, log, pageVars>>

\* exportData: getHistory's callback of chrome.storage.local.get, and the
\* continuation of exportData that builds the document
ExportGet(i) ==
    /\ ops[i].pc = "get"
    /\ ops[i].type = "EXPORT_DATA"
    /\ \E err \in BOOLEAN, t \in ClockReadings :
          IF err
          THEN /\ ops' = [ops EXCEPT ![i] = [@ EXCEPT !.pc = "done", !.resp = Failure,
                                      !.fault = "get"]]
               /\ now' = now
          ELSE /\ ops' = [ops EXCEPT ![i] =
                    [@ EXCEPT !.pc = "done",
                              !.snap = StoredHistory(storage),
                              !.history = HistoryOf(StoredHistory(storage), ops[i].date),
                              !.resp = Success(ExportDocument(
                                          HistoryOf(StoredHistory(storage), ops[i].date),
                                          ops[i].date, t))]]
               /\ now' = t
    /\ UNCHANGED <<storage, tz, log, pageVars>>

\* chrome.runtime.onMessage, message.type === 'CLEAR_HISTORY': clearHistory
\* calls chrome.storage.local.set with [] when date is falsy, and
\* chrome.storage.local.get otherwise
RecvClearHistory(i, date) ==
    /\ ops[i].pc = "idle"
    /\ ops' = [ops EXCEPT ![i] =
                  [@ EXCEPT !.type = "CLEAR_HISTORY", !.date = date,
                            !.pc = IF date = NoDate THEN "set" ELSE "get",
                            !.history = <<>>]]
    /\ UNCHANGED <<storage, tz, now, log, pageVars>>

\* a callback that returns on chrome.runtime.lastError without rejecting
ClearGet_NoReject(i) ==
    /\ ops[i].pc = "get"
    /\ ops[i].type = "CLEAR_HISTORY"
    /\ \E err \in BOOLEAN :
          IF err
          THEN ops' = [ops EXCEPT ![i] = [@ EXCEPT !.pc = "returned", !.fault = "get"]]
          ELSE ops' = [ops EXCEPT ![i] =
                    [@ EXCEPT !.pc = "set",
                              !.snap = StoredHistory(storage),
                              !.history = HistoryWithout(StoredHistory(storage),
                                                         ops[i].date)]]
    /\ UNCHANGED <<storage, tz, now, log, pageVars>>

\* clearHistory: the callback of chrome.storage.local.get
ClearGet(i) ==
    /\ ops[i].pc = "get"
    /\ ops[i].type = "CLEAR_HISTORY"
    /\ \E err \in BOOLEAN :
          IF err
          THEN ops' = [ops EXCEPT ![i] = [@ EXCEPT !.pc = "done", !.resp = Failure,
                                      !.fault = "get"]]
          ELSE ops' = [ops EXCEPT ![i] =
                    [@ EXCEPT !.pc = "set",
                              !.snap = StoredHistory(storage),
                              !.history = HistoryWithout(StoredHistory(storage),
                                                         ops[i].date)]]
    /\ UNCHANGED <<storage, tz, now, log, pageVars>>

\* clearHistory: the callback of chrome.storage.local.set
ClearSet(i) ==
    /\ ops[i].pc = "set"
    /\ ops[i].type = "CLEAR_HISTORY"
    /\ \E err \in BOOLEAN :
          IF err
          THEN /\ ops' = [ops EXCEPT ![i] = [@ EXCEPT !.pc = "done", !.resp = Failure,
                                      !.fault = "set"]]
               /\ UNCHANGED storage
          ELSE /\ storage' = StorageSet(storage, ops[i].history)
               /\ ops' = [ops EXCEPT ![i] =
                    [@ EXCEPT !.pc = "done", !.resp = Success(<<>>)]]
    /\ UNCHANGED <<tz, now, log, pageVars>>

\* chrome.runtime.onInstalled: the listener calls chrome.storage.local.get
RecvInstalled(i) ==
    /\ ops[i].pc = "idle"
    /\ ops' = [ops EXCEPT ![i] = [@ EXCEPT !.type = "INSTALLED", !.pc = "get"]]
    /\ UNCHANGED <<storage, tz, now, log, pageVars>>

\* !result[STORAGE_KEY]: no value is stored under the key (an array, even an
\* empty one, is truthy)
StoreMissing(result) == STORAGE_KEY \notin DOMAIN result

\* onInstalled: the callback of chrome.storage.local.get, which does not look
\* at chrome.runtime.lastError; on an error result is undefined, reading
\* result[STORAGE_KEY] throws, and nothing is written
InstallGet(i) ==
    /\ ops[i].pc = "get"
    /\ ops[i].type = "INSTALLED"
    /\ \E err \in BOOLEAN :
          IF err
          THEN ops' = [ops EXCEPT ![i] = [@ EXCEPT !.pc = "done", !.fault = "get"]]
          ELSE IF StoreMissing(storage)
          THEN ops' = [ops EXCEPT ![i] = [@ EXCEPT !.pc = "set", !.history = <<>>]]
          ELSE ops' = [ops EXCEPT ![i] = [@ EXCEPT !.pc = "done"]]
    /\ UNCHANGED <<storage, tz, now, log, pageVars>>

\* onInstalled: chrome.storage.local.set({ [STORAGE_KEY]: [] }) is applied;
\* the call passes no callback
InstallSet(i) ==
    /\ ops[i].pc = "set"
    /\ ops[i].type = "INSTALLED"
    /\ \E err \in BOOLEAN :
          IF err
          THEN /\ ops' = [ops EXCEPT ![i] = [@ EXCEPT !.pc = "done", !.fault = "set"]]
               /\ UNCHANGED storage
          ELSE /\ storage' = StorageSet(storage, ops[i].history)
               /\ ops' = [ops EXCEPT ![i] = [@ EXCEPT !.pc = "done"]]
    /\ UNCHANGED <<tz, now, log, pageVars>>

----------------------------------------------------------------------------
(* Strings *)

IsSpace(c) == c \in {" ", "\n", "\t"}

\* String.prototype.startsWith, and a regular expression /^text/ tested
StartsWith(s, text) == Len(s) >= Len(text) /\ SubSeq(s, 1, Len(text)) = text

EndsWith(s, text) ==
    Len(s) >= Len(text) /\ SubSeq(s, Len(s) - Len(text) + 1, Len(s)) = text

\* a regular expression /text/ of literal characters tested: text occurs in s
Contains(s, text) ==
    \E k \in 1..(Len(s) - Len(text) + 1) : SubSeq(s, k, k + Len(text) - 1) = text

\* the index of the first character at or after k that is not whitespace
RECURSIVE SkipSpaces(_, _)
SkipSpaces(s, k) ==
    IF k <= Len(s) /\ IsSpace(s[k]) THEN SkipSpaces(s, k + 1) ELSE k

\* the index of the last character at or before k that is not whitespace
RECURSIVE SkipSpacesBack(_, _)
SkipSpacesBack(s, k) ==
    IF k >= 1 /\ IsSpace(s[k]) THEN SkipSpacesBack(s, k - 1) ELSE k

\* String.prototype.trim
Trim(s) == SubSeq(s, SkipSpaces(s, 1), SkipSpacesBack(s, Len(s)))

\* text.replace(/\s+/g, ' '): every maximal run of whitespace becomes a space
CollapseSpaces(s) ==
    LET tagged == [k \in 1..Len(s) |->
                      <<s[k], IF k > 1 THEN IsSpace(s[k - 1]) ELSE FALSE>>]
        Keep(p) == ~(IsSpace(p[1]) /\ p[2])
        kept   == SelectSeq(tagged, Keep)
    IN  [k \in 1..Len(kept) |-> IF IsSpace(kept[k][1]) THEN " " ELSE kept[k][1]]

\* the index of the last newline of the whitespace run that starts at k, or 0
\* when the run holds no newline after k
RECURSIVE LastNewline(_, _, _)
LastNewline(s, k, found) ==
    IF k <= Len(s) /\ IsSpace(s[k])
    THEN LastNewline(s, k + 1, IF s[k] = "\n" THEN k ELSE found)
    ELSE found

\* text.replace(/\n\s*\n/g, '\n\n'), from index k on
RECURSIVE CollapseFrom(_, _)
CollapseFrom(s, k) ==
    IF k > Len(s) THEN <<>>
    ELSE IF s[k] = "\n" /\ LastNewline(s, k + 1, 0) # 0
         THEN <<"\n", "\n">> \o CollapseFrom(s, LastNewline(s, k + 1, 0) + 1)
         ELSE <<s[k]>> \o CollapseFrom(s, k + 1)

\* text.replace(/\n\s*\n/g, '\n\n')
CollapseBlankLines(s) ==
    IF \A k \in 1..Len(s) : s[k] # "\n" THEN s ELSE CollapseFrom(s, 1)

\* content.split(/\s+/).length: one more than the maximal runs of whitespace
SplitLength(s) ==
    1 + Cardinality({k \in 1..Len(s) :
                        IsSpace(s[k]) /\ (IF k > 1 THEN ~IsSpace(s[k - 1]) ELSE TRUE)})

----------------------------------------------------------------------------
(* The document.  An element is a sequence of parts, each the text of one   *)
(* child subtree; strip marks the subtrees matched by removeSelectors.  A   *)
(* text is described by its shape: words of len letters, each preceded by   *)
(* gap whitespace characters (a newline, then spaces), and tail trailing    *)
(* newlines.                                                               *)

TextOf(shape) ==
    LET unit == shape.len + shape.gap
    IN  [k \in 1..(shape.words * unit + shape.tail) |->
            IF k > shape.words * unit THEN "\n"
            ELSE IF (k - 1) % unit >= shape.gap THEN "a"
            ELSE IF (k - 1) % unit = 0 THEN "\n" ELSE " "]

RECURSIVE Concat(_)
Concat(texts) == IF texts = <<>> THEN <<>> ELSE Head(texts) \o Concat(Tail(texts))

\* element.textContent
textContent(element) ==
    Concat([k \in 1..Len(element.parts) |-> TextOf(element.parts[k].text)])

\* clone.querySelectorAll(combinedSelector).forEach(el => el.remove()), then
\* clone.textContent
StrippedTextContent(element) ==
    LET Keep(part) == ~part.strip
        kept == SelectSeq(element.parts, Keep)
    IN  Concat([k \in 1..Len(kept) |-> TextOf(kept[k].text)])

\* window.location.href
Href(location) ==
    location.protocol \o (IF location.slashes THEN <<"/", "/">> ELSE <<>>)
        \o location.hostname \o location.rest

----------------------------------------------------------------------------
(* The content script *)
\* skipPatterns: each a regular expression of literal characters, anchored at
\* the start of the URL or not
skipPatterns ==
    <<[anchored |-> TRUE, text |-> <<"c", "h", "r", "o", "m", "e", ":">>],
      [anchored |-> TRUE, text |-> <<"c", "h", "r", "o", "m", "e", "-", "e", "x", "t", "e", "n", "s", "i", "o", "n", ":">>],
      [anchored |-> TRUE, text |-> <<"a", "b", "o", "u", "t", ":">>],
      [anchored |-> TRUE, text |-> <<"f", "i", "l", "e", ":">>],
      [anchored |-> TRUE, text |-> <<"d", "a", "t", "a", ":">>],
      [anchored |-> TRUE, text |-> <<"b", "l", "o", "b", ":">>],
      [anchored |-> FALSE, text |-> <<"l", "o", "c", "a", "l", "h", "o", "s", "t">>],
      [anchored |-> FALSE, text |-> <<"1", "2", "7", ".", "0", ".", "0", ".", "1">>],
      [anchored |-> FALSE, text |-> <<".", "l", "o", "c", "a", "l">>]>>

\* pattern.test(currentUrl)
PatternTest(pattern, url) ==
    IF pattern.anchored THEN StartsWith(url, pattern.text)
    ELSE Contains(url, pattern.text)

\* skipPatterns.some(pattern => pattern.test(currentUrl))
SkipUrl(url) == \E k \in 1..Len(skipPatterns) : PatternTest(skipPatterns[k], url)

\* the number of mainSelectors
NumSelectors == 10

\* the relevance threshold of a main content candidate
MinMainLength == 200

\* maxLength in extractMainContent
maxLength == 5000

\* the emission gate's threshold
MinContentLength == 100

\* the words read in a minute
WordsPerMinute == 200
\* '... [truncated]'
TruncationMarker == <<".", ".", ".", " ", "[", "t", "r", "u", "n", "c", "a", "t", "e", "d", "]">>

\* the loop over mainSelectors: the index of the first selector whose match
\* has more than 200 characters of trimmed text, from k on; 0 when none has
RECURSIVE FirstMain(_, _)
FirstMain(doc, k) ==
    IF k > NumSelectors THEN 0
    ELSE IF /\ doc.matches[k].present
            /\ Len(Trim(textContent(doc.matches[k]))) > MinMainLength
         THEN k
         ELSE FirstMain(doc, k + 1)

\* the candidate with the most trimmed text among those over the threshold
MainElement_Longest(doc) ==
    LET size(k) == IF doc.matches[k].present
                   THEN Len(Trim(textContent(doc.matches[k]))) ELSE 0
        best == CHOOSE k \in 1..NumSelectors : \A j \in 1..NumSelectors : size(k) >= size(j)
    IN  IF size(best) > MinMainLength THEN doc.matches[best] ELSE doc.body

\* mainElement, with the fallback to document.body
MainElement(doc) ==
    IF FirstMain(doc, 1) # 0 THEN doc.matches[FirstMain(doc, 1)] ELSE doc.body

\* mainElement.cloneNode(true) throws when document.body is null
ExtractionThrows(doc) == ~MainElement(doc).present

\* the whitespace clean-up of extractMainContent
CleanText(text) == Trim(CollapseBlankLines(CollapseSpaces(text)))

\* the truncation of extractMainContent
Truncate(text) ==
    IF Len(text) > maxLength
    THEN SubSeq(text, 1, maxLength) \o TruncationMarker
    ELSE text

extractMainContent(doc) == Truncate(CleanText(StrippedTextContent(MainElement(doc))))

\* Math.floor(wordCount / 200)
ReadingTime_Floor(wordCount) == wordCount \div WordsPerMinute

\* Math.ceil(wordCount / 200)
ReadingTime(wordCount) == (wordCount + WordsPerMinute - 1) \div WordsPerMinute

extractPageData(doc, timestamp) ==
    LET content == extractMainContent(doc)
    IN  [url         |-> Href(doc.location),
         title       |-> IF doc.title # "" THEN doc.title ELSE "Untitled",
         domain      |-> doc.location.hostname,
         timestamp   |-> timestamp,
         content     |-> content,
         wordCount   |-> SplitLength(content),
         readingTime |-> ReadingTime(SplitLength(content))]

\* pageData && pageData.content.length >= 100
EmissionGate_AtLeast(pageData) == Len(pageData.content) >= MinContentLength

\* pageData && pageData.content.length > 100
EmissionGate(pageData) == Len(pageData.content) > MinContentLength

----------------------------------------------------------------------------
(* Inputs of the store *)

\* the fields the extractor submitted, of a stored entry
PayloadOf(entry) == [f \in DOMAIN entry \ {"id", "savedAt"} |-> entry[f]]

Payloads(history) == [k \in 1..Len(history) |-> PayloadOf(history[k])]

\* the instants the store's captures were taken at: midday of each day
StoreStamps == {d * 24 + 12 : d \in Days}

\* the k-th capture the store received: URLs are opaque to the store and are
\* numbered; captures alternate between the two days
Capture(k, timestamp) ==
    [url |-> k, title |-> "t", domain |-> "d", timestamp |-> timestamp,
     content |-> <<"x">>, wordCount |-> 1, readingTime |-> 1]

\* the first n captures, received before the behaviour starts
Earlier(n) == [k \in 1..n |-> Capture(k, (20490 + (k % 2)) * 24 + 12)]

\* a store holding the first n captures
Prefill(n) == [k \in 1..n |-> NewEntry(Earlier(n)[k], generateId(0, k), 0)]

\* the lengths of the initial store: short, and one short of full
StoreLens == {1, MAX_ENTRIES - 1}

\* the content script's variables, where only the store is modelled
NoPage ==
    /\ page = <<>>
    /\ cs = "none"
    /\ outbox = <<>>

\* handler i is invoked only after handler i - 1: the slots are interchangeable
InOrder(i) == IF i = 1 THEN TRUE ELSE ops[i - 1].pc # "idle"

----------------------------------------------------------------------------
(* Spec: appends and clears running concurrently in the service worker *)

Init ==
    /\ \E n \in StoreLens :
          /\ storage = StorageSet(<<>>, Prefill(n))
          /\ log = Earlier(n)
    /\ ops = [i \in 1..MaxOps |-> IdleOp]
    /\ tz = 0
    /\ now = Epoch0
    /\ NoPage

Next ==
    \/ \E i \in DOMAIN ops, timestamp \in StoreStamps :
          InOrder(i) /\ RecvPageData(i, Capture(MAX_ENTRIES + i, timestamp))
    \/ \E i \in DOMAIN ops : SaveGet(i)
    \/ \E i \in DOMAIN ops : SaveSet(i)
    \/ \E i \in DOMAIN ops, date \in Days \cup {NoDate} :
          InOrder(i) /\ RecvClearHistory(i, date)
    \/ \E i \in DOMAIN ops : ClearGet(i)
    \/ \E i \in DOMAIN ops : ClearSet(i)

Spec == Init /\ [][Next]_vars

----------------------------------------------------------------------------
(* SpecSeq: appends one after the other, each starting when the one before *)
(* has responded                                                           *)

\* no other handler is between its request and its response
Quiet(i) == \A j \in DOMAIN ops \ {i} : ops[j].pc \in {"idle", "done"}

\* the lengths of the initial store: empty, one short of full, and full
SeqLens == {0, MAX_ENTRIES - 1, MAX_ENTRIES}

InitSeq ==
    /\ \E n \in SeqLens :
          /\ storage = StorageSet(<<>>, Prefill(n))
          /\ log = Earlier(n)
    /\ ops = [i \in 1..MaxSeqOps |-> IdleOp]
    /\ tz = 0
    /\ now = Epoch0
    /\ NoPage

NextSeq ==
    \/ \E i \in DOMAIN ops :
          /\ InOrder(i)
          /\ Quiet(i)
          /\ RecvPageData(i, Capture(MAX_ENTRIES + i, Epoch0 + 12))
    \/ \E i \in DOMAIN ops : SaveGet(i)
    \/ \E i \in DOMAIN ops : SaveSet(i)

SpecSeq == InitSeq /\ [][NextSeq]_vars

----------------------------------------------------------------------------
(* SpecQuery: queries, exports and clears, one after the other, of every   *)
(* small store in every timezone                                           *)

\* the stores of n entries, the k-th being the k-th capture
RECURSIVE StoresOf(_)
StoresOf(n) ==
    IF n = 0 THEN {<<>>}
    ELSE {Append(h, NewEntry(Capture(n, timestamp), generateId(0, n), 0)) :
            h \in StoresOf(n - 1), timestamp \in Stamps}

InitQuery ==
    /\ \E n \in 0..MaxLen : \E h \in StoresOf(n) :
          /\ storage = StorageSet(<<>>, h)
          /\ log = [k \in 1..n |-> Capture(k, h[k].timestamp)]
    /\ ops = [i \in 1..MaxQueryOps |-> IdleOp]
    /\ tz \in TimeZones
    /\ now = Epoch0
    /\ NoPage

\* handler i may be invoked: in order, and when the others have responded
MayStart(i) == InOrder(i) /\ Quiet(i)

NextQuery ==
    \/ \E i \in DOMAIN ops, date \in Days \cup {NoDate} :
          MayStart(i) /\ RecvGetHistory(i, date)
    \/ \E i \in DOMAIN ops, date \in Days \cup {NoDate} :
          MayStart(i) /\ RecvExportData(i, date)
    \/ \E i \in DOMAIN ops, date \in Days \cup {NoDate} :
          MayStart(i) /\ RecvClearHistory(i, date)
    \/ \E i \in DOMAIN ops : HistoryGet(i)
    \/ \E i \in DOMAIN ops : ExportGet(i)
    \/ \E i \in DOMAIN ops : ClearGet(i)
    \/ \E i \in DOMAIN ops : ClearSet(i)

SpecQuery == InitQuery /\ [][NextQuery]_vars

----------------------------------------------------------------------------
(* SpecInverse: a query, then a clear for the same date, then a query for  *)
(* that date or for all, each started when the one before has responded,   *)
(* over every small store in every timezone                                *)

InitInverse ==
    /\ \E n \in 0..MaxLen : \E h \in StoresOf(n) :
          /\ storage = StorageSet(<<>>, h)
          /\ log = Payloads(h)
    /\ ops = [i \in 1..3 |-> IdleOp]
    /\ tz \in TimeZones
    /\ now = Epoch0
    /\ NoPage

NextInverse ==
    \/ \E date \in Days \cup {NoDate} : RecvGetHistory(1, date)
    \/ ops[1].pc = "done" /\ RecvClearHistory(2, ops[1].date)
    \/ \E date \in {ops[1].date, NoDate} :
          ops[2].pc = "done" /\ RecvGetHistory(3, date)
    \/ \E i \in DOMAIN ops : HistoryGet(i)
    \/ \E i \in DOMAIN ops : ClearGet(i)
    \/ \E i \in DOMAIN ops : ClearSet(i)

SpecInverse == InitInverse /\ [][NextInverse]_vars

----------------------------------------------------------------------------
(* SpecAppend: one append, of a capture as the content script sends it or  *)
(* of one that carries an id and a savedAt, to a store that is empty,      *)
(* short, one short of full, or full                                       *)

\* a payload that is an entry of the store: the first capture, with the id
\* and the savedAt the store gave it
Replayed == NewEntry(Earlier(1)[1], generateId(0, 1), 0)

\* the payloads of the append
AppendPayloads ==
    {Capture(MAX_ENTRIES + 1, t) : t \in StoreStamps} \cup {Replayed}

\* the lengths of the initial store
AppendLens == {0, 1, MAX_ENTRIES - 1, MAX_ENTRIES}

InitAppend ==
    /\ \E n \in AppendLens :
          /\ storage = StorageSet(<<>>, Prefill(n))
          /\ log = Earlier(n)
    /\ ops = [i \in 1..1 |-> IdleOp]
    /\ tz = 0
    /\ now = Epoch0
    /\ NoPage

NextAppend ==
    \/ \E pageData \in AppendPayloads : RecvPageData(1, pageData)
    \/ SaveGet(1)
    \/ SaveSet(1)

SpecAppend == InitAppend /\ [][NextAppend]_vars

----------------------------------------------------------------------------
(* SpecMix: every handler of the service worker, running concurrently over *)
(* a small store                                                           *)

\* the initial storage areas: no value under the key (before the first
\* install), and a store of two captures, one of each day
MixStores == {<<>>, StorageSet(<<>>, Prefill(2))}

InitMix ==
    /\ storage \in MixStores
    /\ log = Payloads(StoredHistory(storage))
    /\ ops = [i \in 1..MaxMixOps |-> IdleOp]
    /\ tz = 0
    /\ now = Epoch0
    /\ NoPage

NextMix ==
    \/ \E i \in DOMAIN ops :
          InOrder(i) /\ RecvPageData(i, Capture(MAX_ENTRIES + i, Epoch0 + 12))
    \/ \E i \in DOMAIN ops, date \in Days \cup {NoDate} :
          InOrder(i) /\ RecvGetHistory(i, date)
    \/ \E i \in DOMAIN ops, date \in Days \cup {NoDate} :
          InOrder(i) /\ RecvExportData(i, date)
    \/ \E i \in DOMAIN ops, date \in Days \cup {NoDate} :
          InOrder(i) /\ RecvClearHistory(i, date)
    \/ \E i \in DOMAIN ops : InOrder(i) /\ RecvInstalled(i)
    \/ \E i \in DOMAIN ops : SaveGet(i)
    \/ \E i \in DOMAIN ops : SaveSet(i)
    \/ \E i \in DOMAIN ops : HistoryGet(i)
    \/ \E i \in DOMAIN ops : ExportGet(i)
    \/ \E i \in DOMAIN ops : ClearGet(i)
    \/ \E i \in DOMAIN ops : ClearSet(i)
    \/ \E i \in DOMAIN ops : InstallGet(i)
    \/ \E i \in DOMAIN ops : InstallSet(i)

SpecMix == InitMix /\ [][NextMix]_vars

----------------------------------------------------------------------------
(* SpecCap: install-time initialisation, appends and clears running        *)
(* concurrently over a store that is full or one short of full, within one *)
(* reading of the clock                                                    *)

\* the initial storage areas: no value under the key, a store one short of
\* full, a full store
CapStores ==
    {<<>>} \cup {StorageSet(<<>>, Prefill(n)) : n \in {MAX_ENTRIES - 1, MAX_ENTRIES}}

InitCap ==
    /\ storage \in CapStores
    /\ log = Payloads(StoredHistory(storage))
    /\ ops = [i \in 1..MaxCapOps |-> IdleOp]
    /\ tz = 0
    /\ now = Epoch0 + MaxTicks
    /\ NoPage

NextCap ==
    \/ \E i \in DOMAIN ops :
          InOrder(i) /\ RecvPageData(i, Capture(MAX_ENTRIES + i, Epoch0 + 12))
    \/ \E i \in DOMAIN ops, date \in {20490, NoDate} :
          InOrder(i) /\ RecvClearHistory(i, date)
    \/ \E i \in DOMAIN ops : InOrder(i) /\ RecvInstalled(i)
    \/ \E i \in DOMAIN ops : SaveGet(i)
    \/ \E i \in DOMAIN ops : SaveSet(i)
    \/ \E i \in DOMAIN ops : ClearGet(i)
    \/ \E i \in DOMAIN ops : ClearSet(i)
    \/ \E i \in DOMAIN ops : InstallGet(i)
    \/ \E i \in DOMAIN ops : InstallSet(i)

SpecCap == InitCap /\ [][NextCap]_vars

----------------------------------------------------------------------------
(* SpecLive: appends, queries, exports and clears running concurrently     *)
(* over a small store, within one reading of the clock, where the storage  *)
(* area invokes every callback it owes                                     *)

InitLive ==
    /\ storage = StorageSet(<<>>, Prefill(2))
    /\ log = Earlier(2)
    /\ ops = [i \in 1..MaxLiveOps |-> IdleOp]
    /\ tz = 0
    /\ now = Epoch0 + MaxTicks
    /\ NoPage

NextLive ==
    \/ \E i \in DOMAIN ops :
          InOrder(i) /\ RecvPageData(i, Capture(MAX_ENTRIES + i, Epoch0 + 12))
    \/ \E i \in DOMAIN ops, date \in {20490, NoDate} :
          InOrder(i) /\ RecvGetHistory(i, date)
    \/ \E i \in DOMAIN ops, date \in {20490, NoDate} :
          InOrder(i) /\ RecvExportData(i, date)
    \/ \E i \in DOMAIN ops, date \in {20490, NoDate} :
          InOrder(i) /\ RecvClearHistory(i, date)
    \/ \E i \in DOMAIN ops : SaveGet(i)
    \/ \E i \in DOMAIN ops : SaveSet(i)
    \/ \E i \in DOMAIN ops : HistoryGet(i)
    \/ \E i \in DOMAIN ops : ExportGet(i)
    \/ \E i \in DOMAIN ops : ClearGet(i)
    \/ \E i \in DOMAIN ops : ClearSet(i)

\* chrome.storage.local invokes the callback of every get and set
StorageResponds ==
    \A i \in 1..MaxLiveOps :
        /\ WF_vars(SaveGet(i))
        /\ WF_vars(SaveSet(i))
        /\ WF_vars(HistoryGet(i))
        /\ WF_vars(ExportGet(i))
        /\ WF_vars(ClearGet(i))
        /\ WF_vars(ClearSet(i))

SpecLive == InitLive /\ [][NextLive]_vars /\ StorageResponds

----------------------------------------------------------------------------
(* The popup *)

\* the pages listed under recentPages
RecentLimit == 10

\* allData.filter(entry => new Date(entry.timestamp).toDateString() ===
\* filterDateStr)
TodayData(allData, date) ==
    LET Keep(entry) == OnFilterDate(entry, date) IN SelectSeq(allData, Keep)

\* one step of the stable sort by (a, b) => new Date(b.timestamp) -
\* new Date(a.timestamp): entry goes behind the entries that are not older
InsertByTimestamp(sorted, entry) ==
    LET n == Cardinality({k \in 1..Len(sorted) :
                             sorted[k].timestamp >= entry.timestamp})
    IN  SubSeq(sorted, 1, n) \o <<entry>> \o SubSeq(sorted, n + 1, Len(sorted))

\* todayData.sort((a, b) => new Date(b.timestamp) - new Date(a.timestamp))
RECURSIVE SortByTimestamp(_)
SortByTimestamp(entries) ==
    IF entries = <<>> THEN <<>>
    ELSE InsertByTimestamp(SortByTimestamp(SubSeq(entries, 1, Len(entries) - 1)),
                           entries[Len(entries)])

\* todayData.sort(...).slice(0, 10)
RecentPages(todayData) ==
    LET sorted == SortByTimestamp(todayData)
    IN  SubSeq(sorted, 1, IF Len(sorted) < RecentLimit THEN Len(sorted) ELSE RecentLimit)

\* todayData.reduce((sum, page) => sum + (page.readingTime || 0), 0)
RECURSIVE TotalReadingTime(_)
TotalReadingTime(entries) ==
    IF entries = <<>> THEN 0
    ELSE TotalReadingTime(SubSeq(entries, 1, Len(entries) - 1))
            + entries[Len(entries)].readingTime

\* a report whose reading time is that of the pages it lists
Report_TotalOfListed(allData, date) ==
    [todayCount  |-> Len(TodayData(allData, date)),
     totalCount  |-> Len(allData),
     readingTime |-> TotalReadingTime(RecentPages(TodayData(allData, date))),
     recentPages |-> RecentPages(TodayData(allData, date))]

\* what refreshData shows for a successful response: the counts, the total
\* reading time and the list of recent pages
Report(allData, date) ==
    [todayCount  |-> Len(TodayData(allData, date)),
     totalCount  |-> Len(allData),
     readingTime |-> TotalReadingTime(TodayData(allData, date)),
     recentPages |-> RecentPages(TodayData(allData, date))]

\* the popup as it is loaded, showing the date picked
Popup(date) ==
    [datePicker |-> date, pc |-> "idle",
     shown |-> [todayCount |-> 0, totalCount |-> 0, readingTime |-> 0,
                recentPages |-> <<>>]]

\* refreshData: sendMessage({ type: 'GET_HISTORY', date: null }), which
\* the service worker receives
RefreshData ==
    /\ page.pc = "idle"
    /\ ops[1].pc = "idle"
    /\ ops' = [ops EXCEPT ![1] =
                  [@ EXCEPT !.type = "GET_HISTORY", !.pc = "get", !.date = NoDate]]
    /\ page' = [page EXCEPT !.pc = "waiting"]
    /\ UNCHANGED <<storage, tz, now, log, cs, outbox>>

\* refreshData after await: the response is shown when response.success,
\* and nothing is done otherwise
RefreshShow ==
    /\ page.pc = "waiting"
    /\ ops[1].pc = "done"
    /\ IF ops[1].resp.success
       THEN page' = [page EXCEPT !.pc = "shown",
                                 !.shown = Report(ops[1].resp.data, page.datePicker)]
       ELSE page' = [page EXCEPT !.pc = "kept"]
    /\ UNCHANGED <<storeVars, tz, cs, outbox>>

\* refreshData's catch: sendMessage rejected, the error state is shown
RefreshFails ==
    /\ page.pc = "waiting"
    /\ ops[1].pc # "done"
    /\ page' = [page EXCEPT !.pc = "error", !.shown.recentPages = <<>>]
    /\ UNCHANGED <<storeVars, tz, cs, outbox>>

----------------------------------------------------------------------------
(* SpecReport: the popup refreshes its report of the day picked, over      *)
(* stores of up to two dozen captures in every timezone                    *)

\* the k-th capture of a store of the report: taken between 06:00 and 17:00
\* UTC of the first day, neither in the order of time nor at distinct times,
\* with a reading time of k minutes
ReportCapture(k) ==
    [Capture(k, 20490 * 24 + 6 + ((k * 7) % 12)) EXCEPT !.readingTime = k]

ReportStore(n) ==
    [k \in 1..n |-> NewEntry(ReportCapture(k), generateId(0, k), 0)]

\* the lengths of the store: empty, few, the limit of the list, one more, many
ReportLens == {0, 3, RecentLimit, RecentLimit + 1, 24}

InitReport ==
    /\ \E n \in ReportLens :
          /\ storage = StorageSet(<<>>, ReportStore(n))
          /\ log = Payloads(ReportStore(n))
    /\ ops = [i \in 1..1 |-> IdleOp]
    /\ tz \in TimeZones
    /\ now = Epoch0
    /\ \E date \in Days : page = Popup(date)
    /\ cs = "none"
    /\ outbox = <<>>

NextReport ==
    \/ RefreshData
    \/ HistoryGet(1)
    \/ RefreshShow
    \/ RefreshFails

SpecReport == InitReport /\ [][NextReport]_vars

----------------------------------------------------------------------------
(* The content script's run in one document *)

\* the content script's position in a document that it has not run in: the
\* guard flag, the outcome so far, and counts of the runs of the script, of
\* the setTimeout calls, of the timers not yet fired and of the sendMessage
\* calls
NotLoaded ==
    [loaded |-> FALSE, pc |-> "none", runs |-> 0, timers |-> 0, pending |-> 0,
     sends |-> 0]

\* the content script runs without the duplicate-execution guard
RunContentScript_NoGuard ==
    /\ cs.pc # "unloaded"
    /\ cs.runs < MaxRuns
    /\ IF SkipUrl(Href(page.location))
       THEN cs' = [cs EXCEPT !.loaded = TRUE, !.pc = "skipped", !.runs = @ + 1]
       ELSE cs' = [cs EXCEPT !.loaded = TRUE, !.pc = "scheduled", !.runs = @ + 1,
                             !.timers = @ + 1, !.pending = @ + 1]
    /\ UNCHANGED <<storeVars, tz, page, outbox>>

\* the content script runs in the document: the duplicate-execution guard,
\* the URL gate, and setTimeout
RunContentScript ==
    /\ cs.pc # "unloaded"
    /\ cs.runs < MaxRuns
    /\ IF cs.loaded THEN cs' = [cs EXCEPT !.runs = @ + 1]
       ELSE IF SkipUrl(Href(page.location))
            THEN cs' = [cs EXCEPT !.loaded = TRUE, !.pc = "skipped", !.runs = @ + 1]
            ELSE cs' = [cs EXCEPT !.loaded = TRUE, !.pc = "scheduled", !.runs = @ + 1,
                                  !.timers = @ + 1, !.pending = @ + 1]
    /\ UNCHANGED <<storeVars, tz, page, outbox>>

\* only the try block handles errors: the promise of sendMessage has no
\* rejection handler
Caught_TryOnly(site) == site \in {"extract", "send"}

\* the errors the deferred action handles, by the place they are raised at:
\* extractPageData and the call of sendMessage are inside try/catch, the
\* rejection of sendMessage's promise goes to .catch(() => {})
Caught(site) == site \in {"extract", "send", "reject"}

\* the outcome of an error raised at site
Raised(site) == IF Caught(site) THEN "error" ELSE "uncaught"

\* the setTimeout callback: extraction, the emission gate and sendMessage,
\* inside try/catch; sendMessage throws when the extension context is gone
TimerFires ==
    /\ cs.pending > 0
    /\ cs.pc # "unloaded"
    /\ \E t \in ClockReadings, context \in BOOLEAN :
          /\ now' = t
          /\ IF ExtractionThrows(page)
             THEN /\ cs' = [cs EXCEPT !.pc = Raised("extract"), !.pending = @ - 1]
                  /\ outbox' = outbox
             ELSE IF ~EmissionGate(extractPageData(page, t))
             THEN /\ cs' = [cs EXCEPT !.pc = "dropped", !.pending = @ - 1]
                  /\ outbox' = outbox
             ELSE IF ~context
             THEN /\ cs' = [cs EXCEPT !.pc = Raised("send"), !.pending = @ - 1,
                                      !.sends = @ + 1]
                  /\ outbox' = outbox
             ELSE /\ cs' = [cs EXCEPT !.pc = "sent", !.pending = @ - 1,
                                      !.sends = @ + 1]
                  /\ outbox' = Append(outbox, extractPageData(page, t))
    /\ UNCHANGED <<storage, ops, log, tz, page>>

\* the page unloads before the delay elapses: the timer never fires
Unload ==
    /\ cs.pc = "scheduled"
    /\ cs' = [cs EXCEPT !.pc = "unloaded"]
    /\ UNCHANGED <<storeVars, tz, page, outbox>>

\* the service worker receives the message
Deliver(i) ==
    /\ outbox # <<>>
    /\ OnPageData(i, Head(outbox))
    /\ outbox' = Tail(outbox)
    /\ UNCHANGED <<storage, now, log, tz, page, cs>>

\* the message reaches no receiver and sendMessage's promise rejects:
\* .catch(() => {}) ignores it
SendFails ==
    /\ outbox # <<>>
    /\ outbox' = Tail(outbox)
    /\ cs' = [cs EXCEPT !.pc = IF Caught("reject") THEN "rejected" ELSE "uncaught"]
    /\ UNCHANGED <<storeVars, tz, page>>

----------------------------------------------------------------------------
(* SpecExtract: one document, from the injection of the content script to  *)
(* the stored capture                                                      *)

Shape(words, len, gap, tail) ==
    [words |-> words, len |-> len, gap |-> gap, tail |-> tail]
Part(strip, shape) == [strip |-> strip, text |-> shape]
Element(parts) == [present |-> TRUE, parts |-> parts]
NoElement == [present |-> FALSE, parts |-> <<>>]

\* a document whose only matches of mainSelectors are article and main
Document(title, article, main, body) ==
    [title |-> title,
     matches |-> [k \in 1..NumSelectors |->
                    IF k = 1 THEN article ELSE IF k = 3 THEN main ELSE NoElement],
     body |-> body]

\* a document with no match of mainSelectors
Plain(title, parts) == Document(title, NoElement, NoElement, Element(parts))

\* documents at the thresholds of the extractor: 100 and 101 characters, 200
\* and 201 words, 5000 and 5001 characters in one word and in many, no text,
\* text under a removed subtree, candidates of 150, 199, 200, 201 and 401
\* characters, a candidate whose text is mostly under a removed subtree, and
\* no body
Documents ==
    { Plain("T", <<Part(FALSE, Shape(1, 100, 0, 0))>>),
      Plain("",  <<Part(FALSE, Shape(1, 101, 0, 0))>>),
      Plain("T", <<Part(FALSE, Shape(200, 1, 1, 0))>>),
      Plain("T", <<Part(FALSE, Shape(201, 1, 2, 1))>>),
      Plain("T", <<Part(FALSE, Shape(1, 5000, 0, 0))>>),
      Plain("T", <<Part(FALSE, Shape(1, 5001, 1, 1))>>),
      Plain("T", <<Part(FALSE, Shape(2501, 1, 1, 0))>>),
      Plain("T", <<Part(FALSE, Shape(0, 1, 0, 0))>>),
      Plain("T", <<Part(TRUE, Shape(1, 300, 0, 0)), Part(FALSE, Shape(1, 50, 1, 0))>>),
      Document("T", Element(<<Part(FALSE, Shape(1, 150, 0, 0))>>),
                    Element(<<Part(FALSE, Shape(2, 200, 1, 0))>>),
                    Element(<<Part(FALSE, Shape(10, 100, 1, 0))>>)),
      Document("T", Element(<<Part(FALSE, Shape(1, 201, 2, 0))>>),
                    Element(<<Part(FALSE, Shape(2, 200, 1, 0))>>),
                    Element(<<Part(FALSE, Shape(10, 100, 1, 0))>>)),
      Document("T", Element(<<Part(FALSE, Shape(1, 200, 1, 1))>>),
                    Element(<<Part(FALSE, Shape(2, 200, 1, 0))>>),
                    Element(<<Part(FALSE, Shape(10, 100, 1, 0))>>)),
      Document("T", Element(<<Part(FALSE, Shape(1, 150, 0, 0))>>),
                    Element(<<Part(FALSE, Shape(1, 199, 1, 0))>>),
                    Element(<<Part(FALSE, Shape(10, 100, 1, 0))>>)),
      Document("T", Element(<<Part(TRUE, Shape(1, 300, 0, 0)),
                              Part(FALSE, Shape(1, 120, 1, 0))>>),
                    Element(<<Part(FALSE, Shape(2, 200, 1, 0))>>),
                    Element(<<Part(FALSE, Shape(10, 100, 1, 0))>>)),
      Document("T", NoElement, NoElement, NoElement) }

\* window.location of the documents: the URLs of the eligibility gate's
\* patterns, and URLs that hold a pattern's text outside the scheme and host
Locations ==
    { [protocol |-> <<"c", "h", "r", "o", "m", "e", ":">>, slashes |-> TRUE, hostname |-> <<"e", "x", "t", "e", "n", "s", "i", "o", "n", "s">>, rest |-> <<"/">>],
      [protocol |-> <<"c", "h", "r", "o", "m", "e", "-", "e", "x", "t", "e", "n", "s", "i", "o", "n", ":">>, slashes |-> TRUE, hostname |-> <<"a", "b", "c">>, rest |-> <<"/", "p", "a", "g", "e">>],
      [protocol |-> <<"a", "b", "o", "u", "t", ":">>, slashes |-> FALSE, hostname |-> <<>>, rest |-> <<"b", "l", "a", "n", "k">>],
      [protocol |-> <<"f", "i", "l", "e", ":">>, slashes |-> TRUE, hostname |-> <<>>, rest |-> <<"/", "h", "o", "m", "e", "/", "a", ".", "h", "t", "m", "l">>],
      [protocol |-> <<"d", "a", "t", "a", ":">>, slashes |-> FALSE, hostname |-> <<>>, rest |-> <<"t", "e", "x", "t", "/", "h", "t", "m", "l", ",", "h", "i">>],
      [protocol |-> <<"b", "l", "o", "b", ":">>, slashes |-> FALSE, hostname |-> <<>>, rest |-> <<"h", "t", "t", "p", "s", ":", "/", "/", "e", "x", "a", "m", "p", "l", "e", ".", "c", "o", "m", "/", "1">>],
      [protocol |-> <<"h", "t", "t", "p", ":">>, slashes |-> TRUE, hostname |-> <<"l", "o", "c", "a", "l", "h", "o", "s", "t">>, rest |-> <<":", "3", "0", "0", "0", "/">>],
      [protocol |-> <<"h", "t", "t", "p", ":">>, slashes |-> TRUE, hostname |-> <<"1", "2", "7", ".", "0", ".", "0", ".", "1">>, rest |-> <<"/", "x">>],
      [protocol |-> <<"h", "t", "t", "p", ":">>, slashes |-> TRUE, hostname |-> <<"p", "r", "i", "n", "t", "e", "r", ".", "l", "o", "c", "a", "l">>, rest |-> <<"/">>],
      [protocol |-> <<"h", "t", "t", "p", "s", ":">>, slashes |-> TRUE, hostname |-> <<"e", "x", "a", "m", "p", "l", "e", ".", "c", "o", "m">>, rest |-> <<"/", "a", "r", "t", "i", "c", "l", "e">>],
      [protocol |-> <<"h", "t", "t", "p", "s", ":">>, slashes |-> TRUE, hostname |-> <<"e", "x", "a", "m", "p", "l", "e", ".", "c", "o", "m">>, rest |-> <<"/", "l", "o", "c", "a", "l", "h", "o", "s", "t", "-", "s", "e", "t", "u", "p">>],
      [protocol |-> <<"h", "t", "t", "p", "s", ":">>, slashes |-> TRUE, hostname |-> <<"w", "w", "w", ".", "l", "o", "c", "a", "l", "n", "e", "w", "s", ".", "c", "o", "m">>, rest |-> <<"/">>],
      [protocol |-> <<"h", "t", "t", "p", "s", ":">>, slashes |-> TRUE, hostname |-> <<"e", "x", "a", "m", "p", "l", "e", ".", "c", "o", "m">>, rest |-> <<"/", "p", "i", "n", "g", "-", "1", "2", "7", ".", "0", ".", "0", ".", "1">>],
      [protocol |-> <<"h", "t", "t", "p", ":">>, slashes |-> TRUE, hostname |-> <<"i", "n", "t", "r", "a", "n", "e", "t">>, rest |-> <<"/", "w", "i", "k", "i">>] }

InitExtract ==
    /\ \E location \in Locations, doc \in Documents :
          page = [location |-> location, title |-> doc.title,
                  matches |-> doc.matches, body |-> doc.body]
    /\ cs = NotLoaded
    /\ outbox = <<>>
    /\ storage = StorageSet(<<>>, <<>>)
    /\ log = <<>>
    /\ ops = [i \in 1..1 |-> IdleOp]
    /\ tz = 0
    /\ now = Epoch0

NextExtract ==
    \/ RunContentScript
    \/ TimerFires
    \/ Unload
    \/ Deliver(1)
    \/ SendFails
    \/ SaveGet(1)
    \/ SaveSet(1)

SpecExtract == InitExtract /\ [][NextExtract]_vars

----------------------------------------------------------------------------
(* Vocabulary of the claims *)

\* the persisted array
Stored == StoredHistory(storage)

\* the last min(Len(s), n) elements of s, in order
MostRecent(s, n) ==
    LET m == IF Len(s) < n THEN Len(s) ELSE n
    IN  [k \in 1..m |-> s[Len(s) - m + k]]

\* the local calendar day an instant falls on
LocalDay(t) == (t + tz) \div 24

\* the entries of history whose timestamp falls on local calendar day d
OnDay(history, d) ==
    LET Keep(entry) == LocalDay(entry.timestamp) = d IN SelectSeq(history, Keep)

\* the entries of history whose timestamp does not fall on local calendar day d
OffDay(history, d) ==
    LET Keep(entry) == LocalDay(entry.timestamp) # d IN SelectSeq(history, Keep)

Done(i) == ops[i].pc = "done"
Succeeded(i) == Done(i) /\ ops[i].resp.success

\* handler i has responded and no handler invoked after it has started
Latest(i) == Done(i) /\ \A j \in DOMAIN ops : j > i => ops[j].pc = "idle"

\* the appends that have succeeded
Appended == {i \in DOMAIN ops : ops[i].type = "PAGE_DATA" /\ Succeeded(i)}

\* the payloads the store held initially: the log before the appends
InitialPayloads == SubSeq(log, 1, Len(log) - Cardinality(Appended))

----------------------------------------------------------------------------
(* C1 *)

\* C1: once every handler of a behaviour of concurrent appends has completed
\* successfully, every submitted capture is in the persisted store (fewer
\* than MAX_ENTRIES captures were submitted, so eviction drops none of them).
C1_NoLostAppend ==
    (\A i \in DOMAIN ops : ops[i].type = "PAGE_DATA" /\ Succeeded(i))
        => \A i \in DOMAIN ops :
              \E k \in 1..Len(Stored) : Stored[k].url = ops[i].data.url

----------------------------------------------------------------------------
(* C2 *)

\* C2: after sequential appends the store holds exactly the most recent
\* min(n, MAX_ENTRIES) appended captures, in insertion order, and an append
\* fails only when the storage area reports an error, never for the size.
C2_SlidingWindow ==
    /\ Payloads(Stored) = MostRecent(log, MAX_ENTRIES)
    /\ \A i \in DOMAIN ops :
          Done(i) /\ ~ops[i].resp.success => ops[i].resp.error = "lastError"

\* an append of a full store has succeeded and the oldest capture is gone
C2_Witness ==
    /\ Len(log) > MAX_ENTRIES
    /\ Len(Stored) = MAX_ENTRIES
    /\ Stored[1].url > 1
    /\ \E i \in Appended : Stored[MAX_ENTRIES].url = ops[i].data.url

----------------------------------------------------------------------------
(* C3 *)

\* C3: a completed query for day d returns exactly the captures of the store
\* it read whose timestamp falls on local calendar day d, in insertion order
\* (none when no capture matches); a query with no date returns them all.
C3_QueryByLocalDay ==
    \A i \in DOMAIN ops :
        ops[i].type = "GET_HISTORY" /\ Succeeded(i) =>
            ops[i].resp.data =
                IF ops[i].date = NoDate THEN ops[i].snap
                ELSE OnDay(ops[i].snap, ops[i].date)

----------------------------------------------------------------------------
(* C4 *)

\* C4: right after a completed clear for day d the store holds exactly the
\* captures it held before whose timestamp does not fall on local calendar
\* day d, in their order; after a clear with no date the store is empty.
C4_ClearByLocalDay ==
    \A i \in DOMAIN ops :
        ops[i].type = "CLEAR_HISTORY" /\ Succeeded(i) /\ Latest(i) =>
            Stored =
                IF ops[i].date = NoDate THEN <<>>
                ELSE OffDay(ops[i].snap, ops[i].date)

----------------------------------------------------------------------------
(* C5 *)

ExportFields == {"url", "title", "content", "timestamp", "domain", "readingTime"}

\* C5: a completed export's document has totalPages equal to the length of
\* the query for the same date, one page per queried capture in the same
\* order with exactly the fields url, title, content, timestamp, domain and
\* readingTime (no id, no savedAt) and the capture's values, and its date is
\* the requested day, or "all" when no day was given.
C5_ExportDocument ==
    \A i \in DOMAIN ops :
        ops[i].type = "EXPORT_DATA" /\ Succeeded(i) =>
            LET doc   == ops[i].resp.data
                query == HistoryOf(ops[i].snap, ops[i].date)
            IN  /\ doc.totalPages = Len(query)
                /\ Len(doc.pages) = Len(query)
                /\ \A k \in 1..Len(doc.pages) :
                      /\ DOMAIN doc.pages[k] = ExportFields
                      /\ \A f \in ExportFields : doc.pages[k][f] = query[k][f]
                /\ IF ops[i].date = NoDate
                   THEN doc.date = "all"
                   ELSE doc.date = ops[i].date

\* an export for a day has returned some but not all of the stored captures
C5_Witness ==
    \E i \in DOMAIN ops :
        /\ ops[i].type = "EXPORT_DATA" /\ Succeeded(i)
        /\ ops[i].date # NoDate
        /\ ops[i].resp.data.totalPages >= 1
        /\ ops[i].resp.data.totalPages < Len(ops[i].snap)

----------------------------------------------------------------------------
(* C8 *)

\* the payloads the store holds after handler i runs alone on payloads h
RunAlone(h, i) ==
    CASE ops[i].type = "PAGE_DATA" ->
            MostRecent(Append(h, ops[i].data), MAX_ENTRIES)
      [] ops[i].type = "CLEAR_HISTORY" ->
            IF ops[i].date = NoDate THEN <<>> ELSE HistoryWithout(h, ops[i].date)
      [] OTHER -> h

\* the payloads after the handlers run alone one after the other, in order p
RECURSIVE RunSerially(_, _, _)
RunSerially(h, p, k) ==
    IF k > Cardinality(DOMAIN ops) THEN h
    ELSE RunSerially(RunAlone(h, p[k]), p, k + 1)

\* C8: when appends and clears, at least one of them a clear, have all
\* completed successfully, the persisted store is what one of the serial
\* orders of those operations leaves.
C8_Serializable ==
    (/\ \A i \in DOMAIN ops : Succeeded(i)
     /\ \E i \in DOMAIN ops : ops[i].type = "CLEAR_HISTORY")
        => \E p \in Permutations(DOMAIN ops) :
              Payloads(Stored) = RunSerially(InitialPayloads, p, 1)

----------------------------------------------------------------------------
(* C6 *)

\* the captures submitted: in flight, received by the service worker, stored
Submitted ==
    {outbox[k] : k \in 1..Len(outbox)}
        \cup {ops[i].data : i \in {j \in DOMAIN ops : ops[j].type = "PAGE_DATA"}}
        \cup {PayloadOf(Stored[k]) : k \in 1..Len(Stored)}

\* the cleaned text of the document's main content, before truncation
CleanedSource == CleanText(StrippedTextContent(MainElement(page)))

\* C6: every capture the extractor produced that is in the store has at most
\* 5000 characters of content, and its content ends with the truncation
\* marker when the cleaned source text had more than 5000 characters.
C6_ContentBounded ==
    \A k \in 1..Len(Stored) :
        /\ Len(Stored[k].content) <= 5000
        /\ Len(CleanedSource) > 5000 => EndsWith(Stored[k].content, TruncationMarker)

----------------------------------------------------------------------------
(* C7 *)

ExcludedProtocols ==
    { <<"c", "h", "r", "o", "m", "e", ":">>,
      <<"c", "h", "r", "o", "m", "e", "-", "e", "x", "t", "e", "n", "s", "i", "o", "n", ":">>,
      <<"a", "b", "o", "u", "t", ":">>,
      <<"f", "i", "l", "e", ":">>,
      <<"d", "a", "t", "a", ":">>,
      <<"b", "l", "o", "b", ":">> }

\* an internal browser page, an extension page, an about:, file:, data: or
\* blob: URI, or a loopback or .local host
Excluded(location) ==
    \/ location.protocol \in ExcludedProtocols
    \/ location.hostname \in { <<"l", "o", "c", "a", "l", "h", "o", "s", "t">>,
                              <<"1", "2", "7", ".", "0", ".", "0", ".", "1">> }
    \/ EndsWith(location.hostname, <<".", "l", "o", "c", "a", "l">>)

\* C7: the content script skips the document exactly when its URL is
\* excluded, and a skipped document leads to no extraction and no submission.
C7_GateExact ==
    cs.loaded =>
        /\ cs.pc = "skipped" <=> Excluded(page.location)
        /\ cs.pc = "skipped" => outbox = <<>> /\ ops[1].pc = "idle" /\ Stored = <<>>

----------------------------------------------------------------------------
(* C9 *)

\* C9: every capture submitted has more than 100 characters of content, and
\* a document whose cleaned content has 100 characters or fewer leads to no
\* message and no record.
C9_EmissionGate ==
    /\ \A m \in Submitted : Len(m.content) > 100
    /\ (~ExtractionThrows(page) /\ Len(extractMainContent(page)) <= 100) =>
          /\ cs.pc # "sent"
          /\ outbox = <<>>
          /\ ops[1].pc = "idle"
          /\ Stored = <<>>

\* the timer has fired in a document of exactly 100 characters, and nothing
\* was sent
C9_Witness ==
    /\ cs.pc = "dropped"
    /\ Len(extractMainContent(page)) = 100

----------------------------------------------------------------------------
(* C10 *)

\* the whitespace-delimited tokens of s: its maximal runs of other characters
Tokens(s) ==
    Cardinality({k \in 1..Len(s) :
                    ~IsSpace(s[k]) /\ (IF k > 1 THEN IsSpace(s[k - 1]) ELSE TRUE)})

\* C10: every capture submitted has wordCount equal to the number of
\* whitespace-delimited tokens of its content and readingTime equal to the
\* ceiling of wordCount / 200, which is at least 1 when there is a word.
C10_ReadingTime ==
    \A m \in Submitted :
        /\ m.wordCount = Tokens(m.content)
        /\ m.readingTime * 200 >= m.wordCount
        /\ (m.readingTime - 1) * 200 < m.wordCount
        /\ m.wordCount > 0 => m.readingTime >= 1

\* a capture of 201 words is stored, with a reading time of two minutes
C10_Witness ==
    \E k \in 1..Len(Stored) :
        /\ Stored[k].wordCount = 201
        /\ Stored[k].readingTime = 2

----------------------------------------------------------------------------
(* C11 *)

\* the selectors whose match has more than 200 characters of trimmed text
Qualifying(doc) ==
    {k \in 1..NumSelectors :
        doc.matches[k].present /\ Len(Trim(textContent(doc.matches[k]))) > 200}

\* the match of the qualifying selector of highest priority, or the body
Selected(doc) ==
    IF Qualifying(doc) = {} THEN doc.body
    ELSE doc.matches[CHOOSE k \in Qualifying(doc) : \A j \in Qualifying(doc) : k <= j]

\* C11: the main element is the match of the first selector, in priority
\* order, whose match has more than 200 characters of trimmed text, whatever
\* the text of later candidates, and the body when no selector qualifies;
\* every capture submitted carries the cleaned text of that element.
C11_FirstQualifying ==
    /\ MainElement(page) = Selected(page)
    /\ \A m \in Submitted :
          m.content = Truncate(CleanText(StrippedTextContent(Selected(page))))

\* a capture is stored whose content is the text of main, the article of the
\* document having 150 characters
C11_Witness ==
    /\ page.matches[1].present
    /\ Len(Trim(textContent(page.matches[1]))) = 150
    /\ page.matches[3].present
    /\ Len(Trim(textContent(page.matches[3]))) = 401
    /\ \E k \in 1..Len(Stored) :
          Stored[k].content = CleanText(StrippedTextContent(page.matches[3]))

\* a capture is stored whose content is the text of an article of 201
\* characters, main having 401
C11_WitnessPriority ==
    /\ page.matches[1].present
    /\ Len(Trim(textContent(page.matches[1]))) = 201
    /\ Len(Trim(textContent(page.matches[3]))) = 401
    /\ \E k \in 1..Len(Stored) :
          Stored[k].content = CleanText(StrippedTextContent(page.matches[1]))

----------------------------------------------------------------------------
(* C12 *)

\* the messages of the store's operations: append, query, export, clear
Requests == {"PAGE_DATA", "GET_HISTORY", "EXPORT_DATA", "CLEAR_HISTORY"}

\* C12: in the step in which the storage area reports an error on the read or
\* the write of an append, query, export or clear, the handler responds with
\* success = false and the error message, and the store is not changed; a
\* handler that has failed never changes its response nor takes another step
\* (so no write follows a failed read), and a success response is only given
\* by a handler whose storage calls all succeeded.
C12_FailureReported ==
    [][\A i \in DOMAIN ops :
          /\ (ops[i].type \in Requests /\ ops[i].fault = "none" /\ ops'[i].fault # "none")
                => /\ ops'[i].pc = "done"
                   /\ ~ops'[i].resp.success
                   /\ ops'[i].resp.error = "lastError"
                   /\ storage' = storage
          /\ (ops[i].type \in Requests /\ ops[i].fault # "none") => ops'[i] = ops[i]
          /\ ops'[i].resp.success => ops'[i].fault = "none"]_vars

\* an append whose write failed and a clear for a day whose read failed have
\* both responded, and the store holds what it held
C12_Witness ==
    /\ \E i \in DOMAIN ops :
          ops[i].type = "PAGE_DATA" /\ ops[i].fault = "set" /\ ~ops[i].resp.success
    /\ \E i \in DOMAIN ops :
          /\ ops[i].type = "CLEAR_HISTORY" /\ ops[i].fault = "get"
          /\ ops[i].date # NoDate /\ ~ops[i].resp.success
    /\ Len(Stored) = 2
    /\ Payloads(Stored) = log

----------------------------------------------------------------------------
(* C13 *)

\* C13: in one page load the content script calls setTimeout at most once,
\* however often it is run in the document, and calls sendMessage at most
\* once: at most one capture is in flight, received or stored, also after a
\* send that failed or an append that was rejected.
C13_AtMostOnce ==
    /\ cs.timers <= 1
    /\ cs.sends <= 1
    /\ Len(outbox) + Cardinality({i \in DOMAIN ops : ops[i].pc # "idle"}) <= 1
    /\ Len(Stored) <= 1

\* the script has run twice in the document, its one submission was
\* rejected by the store, and nothing more was sent
C13_Witness ==
    /\ cs.runs = 2
    /\ cs.sends = 1
    /\ Done(1) /\ ~ops[1].resp.success
    /\ outbox = <<>>

\* the script has run twice in the document and the one message sent was
\* lost
C13_WitnessLost ==
    /\ cs.runs = 2
    /\ cs.pc = "rejected"
    /\ cs.sends = 1

----------------------------------------------------------------------------
(* C17 *)

\* C17: no error of the deferred action reaches the hosting page; after an
\* error of the extraction, a throw of sendMessage or a rejected send there
\* is no message in flight, no handler invoked and no record in the store.
C17_ErrorsCaught ==
    /\ cs.pc # "uncaught"
    /\ cs.pc \in {"error", "rejected"} =>
          /\ outbox = <<>>
          /\ ops[1].pc = "idle"
          /\ Stored = <<>>

\* the send of a capture was rejected
C17_Witness ==
    /\ cs.pc = "rejected"
    /\ cs.sends = 1
    /\ Stored = <<>>

\* the extraction threw in a document without a body
C17_WitnessExtraction ==
    /\ cs.pc = "error"
    /\ ExtractionThrows(page)

\* sendMessage threw in a document that passes the emission gate
C17_WitnessThrow ==
    /\ cs.pc = "error"
    /\ ~ExtractionThrows(page)
    /\ cs.sends = 1

----------------------------------------------------------------------------
(* C14 *)

\* C14: under every interleaving of the onInstalled handler, appends and
\* clears, the persisted store holds at most MAX_ENTRIES captures, and so does
\* every array a handler is about to write.
C14_Capped ==
    /\ Len(Stored) <= 500
    /\ \A i \in DOMAIN ops : ops[i].pc = "set" => Len(ops[i].history) <= 500

\* two appends that both read the full store have both written: the store is
\* full and its oldest capture is gone
C14_Witness ==
    /\ \A i \in DOMAIN ops : ops[i].type = "PAGE_DATA" /\ Succeeded(i)
    /\ Len(log) >= MAX_ENTRIES + 2
    /\ Len(Stored) = MAX_ENTRIES
    /\ Stored[1].url = 2

----------------------------------------------------------------------------
(* C15 *)

\* C15: no two captures of the persisted store have the same id.
C15_UniqueIds ==
    \A j, k \in 1..Len(Stored) : j # k => Stored[j].id # Stored[k].id

----------------------------------------------------------------------------
(* C16 *)

\* the date filter of query and export: the captures whose timestamp has the
\* date string of the day asked for, or all of them when no day is given
DateFilter(history, date) ==
    LET Keep(entry) == (entry.timestamp + tz) \div 24 = (date * 24 + tz) \div 24
    IN  IF date = NoDate THEN history ELSE SelectSeq(history, Keep)

\* the array stored under the key in a storage area
ArrayIn(area) ==
    IF "browsing_history" \in DOMAIN area THEN area["browsing_history"] ELSE <<>>

\* C16: no step of a query or of an export changes the persisted store, and
\* the result a query or an export responds with is the date filter applied
\* to the array the store holds in the state the response is computed in,
\* whatever appends, clears and installs are running.
C16_ReadOnlySnapshot ==
    [][\A i \in DOMAIN ops :
          (ops'[i].type \in {"GET_HISTORY", "EXPORT_DATA"} /\ ops'[i] # ops[i]) =>
              /\ storage' = storage
              /\ ops'[i].resp.success =>
                    LET result == DateFilter(ArrayIn(storage), ops'[i].date)
                        data   == ops'[i].resp.data
                    IN  IF ops'[i].type = "GET_HISTORY"
                        THEN data = result
                        ELSE /\ data.totalPages = Len(result)
                             /\ Len(data.pages) = Len(result)
                             /\ \A k \in 1..Len(result) :
                                   data.pages[k].url = result[k].url]_vars

\* a query for a day has returned a capture while an append that read the
\* store before it was waiting to write
C16_Witness ==
    \E i, j \in DOMAIN ops :
        /\ ops[i].type = "GET_HISTORY" /\ Succeeded(i)
        /\ ops[i].date # NoDate
        /\ Len(ops[i].resp.data) = 1
        /\ ops[j].type = "PAGE_DATA" /\ ops[j].pc = "set"
        /\ j < i

----------------------------------------------------------------------------
(* C20 *)

\* C20: when the onInstalled handler has finished, and with it one append
\* that completed successfully, no other handler having run, the capture of
\* that append is in the persisted store.
C20_InstallKeepsCaptures ==
    (/\ \A i \in DOMAIN ops :
            \/ ops[i].type = "INSTALLED" /\ Done(i)
            \/ ops[i].type = "PAGE_DATA" /\ Succeeded(i)
     /\ \E i \in DOMAIN ops : ops[i].type = "INSTALLED"
     /\ Cardinality(Appended) <= 1)
        => \A i \in Appended :
              \E k \in 1..Len(Stored) : Stored[k].url = ops[i].data.url

----------------------------------------------------------------------------
(* C18 *)

\* the entries of history that are not among those of removed, in order
Without(history, removed) ==
    LET Keep(entry) == \A k \in 1..Len(removed) : removed[k] # entry
    IN  SelectSeq(history, Keep)

\* C18: when query(d) on store S and then clear(d) have succeeded, the store
\* holds S without the captures query(d) returned, in their order; a
\* following query(d) returns nothing and a following query() returns that
\* remainder.
C18_ClearInvertsQuery ==
    (Succeeded(1) /\ Succeeded(2)) =>
        /\ Stored = Without(ops[1].snap, ops[1].resp.data)
        /\ Succeeded(3) =>
              /\ ops[3].date = ops[1].date => ops[3].resp.data = <<>>
              /\ ops[3].date = NoDate =>
                    ops[3].resp.data = Without(ops[1].snap, ops[1].resp.data)

\* west of UTC, query(d) returned one of two captures, clear(d) removed it,
\* and query() returns the other
C18_Witness ==
    /\ tz < 0
    /\ Succeeded(1) /\ Succeeded(2) /\ Succeeded(3)
    /\ ops[1].date # NoDate
    /\ Len(ops[1].snap) = 2
    /\ Len(ops[1].resp.data) = 1
    /\ ops[3].date = NoDate
    /\ Len(ops[3].resp.data) = 1

----------------------------------------------------------------------------
(* C19 *)

PayloadFields ==
    {"url", "title", "domain", "timestamp", "content", "wordCount", "readingTime"}

\* C19: the step that completes a successful append leaves a store one
\* longer, up to MAX_ENTRIES, whose last entry has the payload's url, title,
\* domain, timestamp, content, wordCount and readingTime, an id made from a
\* clock reading of the behaviour and a savedAt that is such a reading
\* (neither taken from the payload), and whose other entries are the most
\* recent ones of the store before, unchanged and in their order.
C19_AppendFrame ==
    [][\A i \in DOMAIN ops :
          (ops[i].type = "PAGE_DATA" /\ ops[i].pc = "set" /\ ops'[i].resp.success) =>
              LET old  == ArrayIn(storage)
                  new  == ArrayIn(storage')
                  last == new[Len(new)]
              IN  /\ Len(new) = IF Len(old) < 500 THEN Len(old) + 1 ELSE 500
                  /\ DOMAIN last = PayloadFields \cup {"id", "savedAt"}
                  /\ \A f \in PayloadFields : last[f] = ops[i].data[f]
                  /\ last.id[1] \in Epoch0..now
                  /\ last.savedAt \in Epoch0..now
                  /\ SubSeq(new, 1, Len(new) - 1) = MostRecent(old, Len(new) - 1)]_vars

\* an entry of the store was sent as the payload to the full store: it is
\* the last entry under a new id and savedAt, the first entry is gone, and
\* the one that was second is first
C19_Witness ==
    /\ Succeeded(1)
    /\ "id" \in DOMAIN ops[1].data
    /\ Len(Stored) = MAX_ENTRIES
    /\ Stored[MAX_ENTRIES].url = ops[1].data.url
    /\ Stored[MAX_ENTRIES].id # ops[1].data.id
    /\ Stored[MAX_ENTRIES].savedAt # ops[1].data.savedAt
    /\ Stored[1].url = 2

----------------------------------------------------------------------------
(* C21 *)

\* C21: where the storage area invokes every callback, each PAGE_DATA,
\* GET_HISTORY, EXPORT_DATA and CLEAR_HISTORY request is eventually
\* responded to; a handler has given no response before it is done, has
\* given a success or a failure when it is done, and never responds again
\* or otherwise once it is done.
C21_ExactlyOneResponse ==
    /\ \A i \in 1..MaxLiveOps :
          (ops[i].type \in Requests) ~> (ops[i].pc = "done")
    /\ [](\A i \in DOMAIN ops :
            /\ ops[i].pc # "done" => ops[i].resp = NoResponse
            /\ (ops[i].type \in Requests /\ ops[i].pc = "done") =>
                  \/ ops[i].resp.success
                  \/ ops[i].resp.error # "")
    /\ [][\A i \in DOMAIN ops : ops[i].pc = "done" => ops'[i] = ops[i]]_vars

\* a clear for a day has failed on its read and an append has succeeded,
\* both responded to
C21_Witness ==
    /\ \E i \in DOMAIN ops :
          /\ ops[i].type = "CLEAR_HISTORY" /\ ops[i].date # NoDate
          /\ Done(i) /\ ops[i].resp.error = "lastError"
    /\ \E i \in DOMAIN ops : ops[i].type = "PAGE_DATA" /\ Succeeded(i)

----------------------------------------------------------------------------
(* C22 *)

\* the sum of readingTime over entries
RECURSIVE SumOfReadingTime(_)
SumOfReadingTime(entries) ==
    IF entries = <<>> THEN 0
    ELSE Head(entries).readingTime + SumOfReadingTime(Tail(entries))

====
